---- MODULE Spec2Model ----
(***************************************************************************)
(* The enrichment API of server.js: POST /api/enrich parses an uploaded    *)
(* CSV, resolves a company name per row, calls the AI service once per     *)
(* company (at most 50, one at a time), merges each reply into the row and *)
(* answers with the rows and the cost summary.                              *)
(***************************************************************************)
EXTENDS Integers, Sequences, FiniteSets, TLC

(***************************************************************************)
(* Bounds of the model.                                                    *)
(***************************************************************************)
\* longest upload of the long family (rows); Cap + 2, so the cap is passed
MaxRows == 52
\* rows without a resolvable name at the head of a long upload
MaxBlank == 1
\* rows of an upload drawn from RowShapes
MaxShort == 2
\* rows of an upload whose service replies are unconstrained
MaxCalls == 3
\* tokens of a reply text in the extraction specification
MaxText == 5

(***************************************************************************)
(* JavaScript values.  A value is tagged with its type; an object is the   *)
(* sequence of its <<key, value>> properties in property order.            *)
(***************************************************************************)
Undefined == [t |-> "undefined"]
Str(s) == [t |-> "string", s |-> s]
Num(d) == [t |-> "number", d |-> d]
Obj(o) == [t |-> "object", o |-> o]
Bool(b) == [t |-> "boolean", b |-> b]
Arr(a) == [t |-> "array", a |-> a]

\* ToBoolean: the empty string, undefined and 0 are falsy
Truthy(v) ==
    CASE v.t = "string" -> v.s # ""
      [] v.t = "number" -> v.d.m # <<>>
      [] v.t = "object" -> TRUE
      [] v.t = "array" -> TRUE
      [] v.t = "boolean" -> v.b
      [] OTHER -> FALSE

\* a || b
Or(a, b) == IF Truthy(a) THEN a ELSE b

\* Property keys that are canonical array indices, with their numeric value:
\* an object lists these first, in ascending order, whatever the insertion
\* order was.
IndexValue == ("2023" :> 2023) @@ ("2024" :> 2024)
IsIndex(k) == k \in DOMAIN IndexValue

Keys(o) == {o[i][1] : i \in 1..Len(o)}
Has(o, k) == k \in Keys(o)
Get(o, k) ==
    IF Has(o, k) THEN o[CHOOSE i \in 1..Len(o) : o[i][1] = k][2] ELSE Undefined

\* number of properties that precede a new key k in property order
Before(o, k) ==
    IF IsIndex(k)
    THEN Cardinality({i \in 1..Len(o) :
                        IsIndex(o[i][1]) /\ IndexValue[o[i][1]] < IndexValue[k]})
    ELSE Len(o)

\* o[k] = v (CreateDataProperty): an existing key keeps its place
Put(o, k, v) ==
    IF Has(o, k)
    THEN [i \in 1..Len(o) |-> IF o[i][1] = k THEN <<k, v>> ELSE o[i]]
    ELSE LET n == Before(o, k)
         IN  SubSeq(o, 1, n) \o << <<k, v>> >> \o SubSeq(o, n + 1, Len(o))

\* { ...a, ...b }: the properties of b are set on a copy of a, in b's order
RECURSIVE Spread(_, _)
Spread(a, b) ==
    IF b = <<>> THEN a ELSE Spread(Put(a, b[1][1], b[1][2]), Tail(b))

\* Object.values(o)
ObjectValues(o) == [i \in 1..Len(o) |-> o[i][2]]

\* arr[0]
First(arr) == IF Len(arr) = 0 THEN Undefined ELSE arr[1]

\* arr.slice(0, n)
Slice(arr, n) == SubSeq(arr, 1, IF Len(arr) < n THEN Len(arr) ELSE n)

(***************************************************************************)
(* IEEE-754 binary64 numbers >= 0, as [m, e] for m * 2^e: m is the         *)
(* significand in bits, least significant first, odd (or empty for 0).     *)
(* Only what the handler computes: integer * double, and a difference.     *)
(***************************************************************************)
Precision == 53

RECURSIVE BitsOf(_)
BitsOf(n) == IF n = 0 THEN <<>> ELSE <<n % 2>> \o BitsOf(n \div 2)

Bit(b, i) == IF i >= 1 /\ i <= Len(b) THEN b[i] ELSE 0

\* number of zero bits at the low end of a non-zero b
RECURSIVE LowZeros(_, _)
LowZeros(b, i) == IF b[i] = 1 THEN i - 1 ELSE LowZeros(b, i + 1)

\* length of b without its high zero bits
RECURSIVE TopBit(_, _)
TopBit(b, i) == IF i = 0 THEN 0 ELSE IF b[i] = 1 THEN i ELSE TopBit(b, i - 1)

\* the canonical form of bits b at exponent e
Normal(b, e) ==
    LET top == TopBit(b, Len(b))
    IN  IF top = 0 THEN [m |-> <<>>, e |-> 0]
        ELSE LET z == LowZeros(b, 1)
             IN  [m |-> SubSeq(b, z + 1, top), e |-> e + z]

\* b * n for a small natural n, digit by digit with a carry
RECURSIVE MulBits(_, _, _, _, _)
MulBits(b, n, i, carry, acc) ==
    IF i > Len(b)
    THEN acc \o BitsOf(carry)
    ELSE LET s == b[i] * n + carry
         IN  MulBits(b, n, i + 1, s \div 2, Append(acc, s % 2))

\* b + 1
RECURSIVE IncBits(_, _, _)
IncBits(b, i, acc) ==
    IF i > Len(b) THEN Append(acc, 1)
    ELSE IF b[i] = 0 THEN acc \o <<1>> \o SubSeq(b, i + 1, Len(b))
    ELSE IncBits(b, i + 1, Append(acc, 0))

\* a - b for a >= b, with a borrow
RECURSIVE SubBits(_, _, _, _, _)
SubBits(a, b, i, borrow, acc) ==
    IF i > Len(a)
    THEN acc
    ELSE LET d == a[i] - Bit(b, i) - borrow
         IN  SubBits(a, b, i + 1, IF d < 0 THEN 1 ELSE 0,
                     Append(acc, IF d < 0 THEN d + 2 ELSE d))

Zeros(n) == [i \in 1..n |-> 0]

\* round to nearest, ties to even, at Precision bits
Round(b, e) ==
    LET top == TopBit(b, Len(b))
        s == top - Precision
    IN  IF s <= 0 THEN Normal(b, e)
        ELSE LET q == SubSeq(b, s + 1, top)
                 guard == b[s]
                 sticky == \E i \in 1..(s - 1) : b[i] = 1
                 up == guard = 1 /\ (sticky \/ q[1] = 1)
             IN  Normal(IF up THEN IncBits(q, 1, <<>>) ELSE q, e + s)

\* the double of a small natural
FromInt(n) == Normal(BitsOf(n), 0)

\* n * d, n a small natural (results.length)
TimesInt(n, d) == Round(MulBits(d.m, n, 1, 0, <<>>), d.e)

\* a - b for a >= b
Minus(a, b) ==
    LET e0 == IF a.e < b.e THEN a.e ELSE b.e
        x == Zeros(a.e - e0) \o a.m
        y == Zeros(b.e - e0) \o b.m
    IN  Round(SubBits(x, y, 1, 0, <<>>), e0)

\* the bits of a hexadecimal numeral, most significant digit first
RECURSIVE HexBits(_)
HexBits(h) ==
    IF h = <<>> THEN <<>>
    ELSE LET d == h[Len(h)]
         IN  <<d % 2, (d \div 2) % 2, (d \div 4) % 2, (d \div 8) % 2>>
             \o HexBits(SubSeq(h, 1, Len(h) - 1))

\* 0.15: 0x13333333333333 * 2^-55
Double015 == Normal(HexBits(<<1, 3, 3, 3, 3, 3, 3, 3, 3, 3, 3, 3, 3, 3>>), -55)

(***************************************************************************)
(* The reply text of the service, as a sequence of tokens.  The two brace  *)
(* tokens are the only ones that hold a brace character; a token that is   *)
(* none of those below ("Sure:", "~~~json") is prose, which no JSON holds. *)
(***************************************************************************)
LBrace == "{"
RBrace == "}"
Comma == ","
\* "key":"value" members of a JSON object, with the property each one sets
PairTokens ==
    {"\"industry\":\"Tech\"", "\"company\":\"Acme Corp\"", "\"error\":\"none\"",
     "\"enrichment_cost\":\"free\"", "\"enriched_at\":\"never\""}
PairKey(tok) ==
    CASE tok = "\"industry\":\"Tech\"" -> "industry"
      [] tok = "\"company\":\"Acme Corp\"" -> "company"
      [] tok = "\"error\":\"none\"" -> "error"
      [] tok = "\"enrichment_cost\":\"free\"" -> "enrichment_cost"
      [] tok = "\"enriched_at\":\"never\"" -> "enriched_at"
PairValue(tok) ==
    CASE tok = "\"industry\":\"Tech\"" -> Str("Tech")
      [] tok = "\"company\":\"Acme Corp\"" -> Str("Acme Corp")
      [] tok = "\"error\":\"none\"" -> Str("none")
      [] tok = "\"enrichment_cost\":\"free\"" -> Str("free")
      [] tok = "\"enriched_at\":\"never\"" -> Str("never")
\* "key": tokens, each followed by an object value
KeyTokens == {"\"meta\":"}
KeyOf(tok) == "meta"

(***************************************************************************)
(* JSON.parse of a text that starts with a brace: one object, nothing      *)
(* after it.  A repeated key keeps its last value.                         *)
(***************************************************************************)
ParseFail == [ok |-> FALSE, obj |-> <<>>, next |-> 0]

RECURSIVE ParseObject(_, _), ParseMember(_, _, _), ParseAfterMember(_, _, _)
ParseObject(toks, i) ==
    IF i > Len(toks) \/ toks[i] # LBrace THEN ParseFail
    ELSE IF i + 1 <= Len(toks) /\ toks[i + 1] = RBrace
    THEN [ok |-> TRUE, obj |-> <<>>, next |-> i + 2]
    ELSE ParseMember(toks, i + 1, <<>>)

ParseMember(toks, i, acc) ==
    IF i > Len(toks) THEN ParseFail
    ELSE IF toks[i] \in PairTokens
    THEN ParseAfterMember(toks, i + 1, Put(acc, PairKey(toks[i]), PairValue(toks[i])))
    ELSE IF toks[i] \in KeyTokens
    THEN LET r == ParseObject(toks, i + 1)
         IN  IF r.ok
             THEN ParseAfterMember(toks, r.next, Put(acc, KeyOf(toks[i]), Obj(r.obj)))
             ELSE ParseFail
    ELSE ParseFail

ParseAfterMember(toks, i, acc) ==
    IF i > Len(toks) THEN ParseFail
    ELSE IF toks[i] = RBrace THEN [ok |-> TRUE, obj |-> acc, next |-> i + 1]
    ELSE IF toks[i] = Comma THEN ParseMember(toks, i + 1, acc)
    ELSE ParseFail

JSONParse(toks) ==
    LET r == ParseObject(toks, 1)
    IN  IF r.ok /\ r.next = Len(toks) + 1
        THEN [ok |-> TRUE, value |-> r.obj]
        ELSE [ok |-> FALSE, value |-> <<>>]

(***************************************************************************)
(* responseText.match(/\{[\s\S]*\}/): from the leftmost "{" that has a "}" *)
(* after it to the last "}" of the text; no match without such a pair.     *)
(***************************************************************************)
RECURSIVE IndexFrom(_, _, _)
IndexFrom(toks, tok, i) ==
    IF i > Len(toks) THEN 0
    ELSE IF toks[i] = tok THEN i ELSE IndexFrom(toks, tok, i + 1)

RECURSIVE LastIndex(_, _, _)
LastIndex(toks, tok, i) ==
    IF i < 1 THEN 0
    ELSE IF toks[i] = tok THEN i ELSE LastIndex(toks, tok, i - 1)

\* LastClose as a lazy match would have it: the first "}"
FirstClose(toks) == IndexFrom(toks, RBrace, 1)

LastClose(toks) == LastIndex(toks, RBrace, Len(toks))

Match(toks) ==
    LET from == IndexFrom(toks, LBrace, 1)
        to == LastClose(toks)
    IN  IF from = 0 \/ to < from
        THEN [found |-> FALSE, text |-> <<>>]
        ELSE [found |-> TRUE, text |-> SubSeq(toks, from, to)]

(***************************************************************************)
(* What anthropic.messages.create gives: it rejects, or resolves to a      *)
(* message whose content is a sequence of text blocks.                     *)
(***************************************************************************)
Rejected == [kind |-> "rejected", content |-> <<>>]
Message(content) == [kind |-> "message", content |-> content]
TextBlock(toks) == [type |-> "text", text |-> toks]

Thrown(e) == [ok |-> FALSE, error |-> e, value |-> <<>>]
Returned(o) == [ok |-> TRUE, error |-> "", value |-> o]

\* enrichCompany with a check that the object has an industry
enrichCompanyChecked(outcome) ==
    IF outcome.kind = "rejected" THEN Thrown("ServiceError")
    ELSE IF outcome.content = <<>> THEN Thrown("TypeError")
    ELSE LET jsonMatch == Match(outcome.content[1].text)
         IN  IF ~jsonMatch.found THEN Thrown("NoJsonFound")
             ELSE LET parsed == JSONParse(jsonMatch.text)
                  IN  IF parsed.ok /\ Has(parsed.value, "industry")
                      THEN Returned(parsed.value)
                      ELSE Thrown("MalformedJson")

\* enrichCompany, from the outcome of the service call on
enrichCompany(outcome) ==
    IF outcome.kind = "rejected" THEN Thrown("ServiceError")
    ELSE IF outcome.content = <<>> THEN Thrown("TypeError")
    ELSE LET jsonMatch == Match(outcome.content[1].text)
         IN  IF ~jsonMatch.found THEN Thrown("NoJsonFound")
             ELSE LET parsed == JSONParse(jsonMatch.text)
                  IN  IF parsed.ok THEN Returned(parsed.value)
                      ELSE Thrown("MalformedJson")

\* calculateCost
calculateCost(data) == Double015

\* new Date(t).toISOString(), t in seconds of one day
TwoDigits(n) == IF n < 10 THEN "0" \o ToString(n) ELSE ToString(n)
toISOString(t) ==
    "2026-01-01T00:" \o TwoDigits((t \div 60) % 60) \o ":" \o TwoDigits(t % 60)
    \o ".000Z"

(***************************************************************************)
(* The upload, as csv-parser reads it: a header and the cells of each row. *)
(* A row object gets one property per cell, in column order.               *)
(***************************************************************************)
RECURSIVE RowOf(_, _, _)
RowOf(header, cells, i) ==
    IF i = 0 THEN <<>>
    ELSE Put(RowOf(header, cells, i - 1), header[i], Str(cells[i]))

\* companyName with Company looked up before company
companyNameCapitalFirst(row) ==
    Or(Or(Or(Or(Get(row, "Company"), Get(row, "company")),
             Get(row, "business_name")),
          Get(row, "Company Name")),
       First(ObjectValues(row)))

\* the row handler's company name
companyName(row) ==
    Or(Or(Or(Or(Get(row, "company"), Get(row, "Company")),
             Get(row, "business_name")),
          Get(row, "Company Name")),
       First(ObjectValues(row)))

\* the 'data' handler: companies after one more row
OnRow(cs, row) ==
    IF Truthy(companyName(row))
    THEN Append(cs, [name |-> companyName(row), originalRow |-> row])
    ELSE cs

(***************************************************************************)
(* The batch loop and the response.                                        *)
(***************************************************************************)
Cap == 50
RetailPrice == 10

\* Batch without the cap
BatchUncapped(cs) == cs

\* companies.slice(0, 50)
Batch(cs) == Slice(cs, Cap)

\* NextCompany walking the batch from its end
NextCompanyReversed(batch, done) == batch[Len(batch) - done]

\* the company of the next call, when done rows have been pushed
NextCompany(batch, done) == batch[done + 1]

\* SuccessRow with the uploaded row spread over the reply
SuccessRowRowWins(company, enrichedData, t) ==
    Put(Put(Spread(Spread(<<>>, enrichedData), company.originalRow),
            "enrichment_cost", Num(calculateCost(enrichedData))),
        "enriched_at", Str(toISOString(t)))

\* SuccessRow without the timestamp
SuccessRowUnstamped(company, enrichedData, t) ==
    Put(Spread(Spread(<<>>, company.originalRow), enrichedData),
        "enrichment_cost", Num(calculateCost(enrichedData)))

\* the row pushed when enrichCompany returned enrichedData at time t
SuccessRow(company, enrichedData, t) ==
    Put(Put(Spread(Spread(<<>>, company.originalRow), enrichedData),
            "enrichment_cost", Num(calculateCost(enrichedData))),
        "enriched_at", Str(toISOString(t)))

\* FailureRow without the uploaded row
FailureRowBare(company) == << <<"error", Str("Enrichment failed")>> >>

\* the row pushed when enrichCompany threw
FailureRow(company) ==
    Put(Spread(<<>>, company.originalRow), "error", Str("Enrichment failed"))

\* one pass of the loop body, from the outcome of the call on
LoopBody(company, outcome, t) ==
    LET r == enrichCompany(outcome)
    IN  IF r.ok THEN SuccessRow(company, r.value, t) ELSE FailureRow(company)

\* Summary counting only the rows that were enriched
SummaryOfEnriched(rs) ==
    LET n == Len(SelectSeq(rs, LAMBDA r : Has(r, "enrichment_cost")))
    IN  [status |-> 200,
         body |-> << <<"success", Bool(TRUE)>>,
                     <<"total_processed", Num(FromInt(n))>>,
                     <<"estimated_cost", Num(TimesInt(n, Double015))>>,
                     <<"retail_value", Num(FromInt(n * RetailPrice))>>,
                     <<"margin", Num(Minus(FromInt(n * RetailPrice),
                                           TimesInt(n, Double015)))>>,
                     <<"data", Arr([i \in 1..Len(rs) |-> Obj(rs[i])])>> >>]

\* res.json({ success, total_processed, ... })
Summary(rs) ==
    LET n == Len(rs)
    IN  [status |-> 200,
         body |-> << <<"success", Bool(TRUE)>>,
                     <<"total_processed", Num(FromInt(n))>>,
                     <<"estimated_cost", Num(TimesInt(n, Double015))>>,
                     <<"retail_value", Num(FromInt(n * RetailPrice))>>,
                     <<"margin", Num(Minus(FromInt(n * RetailPrice),
                                           TimesInt(n, Double015)))>>,
                     <<"data", Arr([i \in 1..n |-> Obj(rs[i])])>> >>]

\* Failure answering with the rows so far
FailureWithRows(rs) ==
    [status |-> 500,
     body |-> << <<"error", Str("Processing failed")>>,
                 <<"data", Arr([i \in 1..Len(rs) |-> Obj(rs[i])])>> >>]

\* the outer catch: res.status(500).json({ error })
Failure(rs) ==
    [status |-> 500, body |-> << <<"error", Str("Processing failed")>> >>]

NoResponse == [status |-> 0, body |-> <<>>]

(***************************************************************************)
(* The requests and the service behaviours the model draws from.           *)
(***************************************************************************)
\* a CSV header, the cells of a full row under it, and the columns whose
\* cell may be empty
Headers ==
    {[cols |-> <<"company">>, sample |-> <<"Acme">>, blank |-> {1}],
     [cols |-> <<"id", "Company">>, sample |-> <<"7", "Beta">>, blank |-> {1, 2}],
     [cols |-> <<"company", "Company">>, sample |-> <<"Acme", "Beta">>,
      blank |-> {1, 2}],
     [cols |-> <<"business_name", "company">>, sample |-> <<"Gamma", "Acme">>,
      blank |-> {1, 2}],
     [cols |-> <<"Company Name", "id">>, sample |-> <<"Delta", "7">>,
      blank |-> {1, 2}],
     [cols |-> <<"id", "note">>, sample |-> <<"7", "n/a">>, blank |-> {1, 2}],
     [cols |-> <<"name", "2024", "2023">>, sample |-> <<"Acme", "5", "4">>,
      blank |-> {3}],
     [cols |-> <<"company", "industry", "error", "enrichment_cost", "enriched_at">>,
      sample |-> <<"Acme", "Retail", "E0", "9", "T0">>, blank |-> {}]}

PlainHeader == [cols |-> <<"company">>, sample |-> <<"Acme">>, blank |-> {1}]
ClashHeader ==
    [cols |-> <<"company", "industry", "error", "enrichment_cost", "enriched_at">>,
     sample |-> <<"Acme", "Retail", "E0", "9", "T0">>, blank |-> {}]

\* the rows a header admits: the sample with some of the blank columns empty
CellRows(h) ==
    {[j \in 1..Len(h.cols) |-> IF j \in B THEN "" ELSE h.sample[j]] :
        B \in SUBSET h.blank}

Upload(cols, rows) == [present |-> TRUE, header |-> cols, rows |-> rows]
NoUpload == [present |-> FALSE, header |-> <<>>, rows |-> <<>>]

\* a long upload: n rows of a company and the row's number, the first u of
\* them without a company
LongHeader == <<"company", "row">>
LongRows(n, u) ==
    [j \in 1..n |->
        <<IF j <= u THEN "" ELSE "C" \o ToString(j), ToString(j)>>]

GoodReply ==
    Message(<<TextBlock(<<"~~~json", LBrace, "\"industry\":\"Tech\"", RBrace,
                          "~~~">>)>>)
ClashReply ==
    Message(<<TextBlock(<<LBrace, "\"company\":\"Acme Corp\"", Comma,
                          "\"error\":\"none\"", Comma,
                          "\"enrichment_cost\":\"free\"", Comma,
                          "\"enriched_at\":\"never\"", RBrace>>)>>)
ProseReply == Message(<<TextBlock(<<"Sure:">>)>>)
MalformedReply ==
    Message(<<TextBlock(<<LBrace, "\"industry\":\"Tech\"", Comma, RBrace>>)>>)
EmptyObjectReply == Message(<<TextBlock(<<"Sure:", LBrace, RBrace>>)>>)
EmptyContent == Message(<<>>)

Outcomes ==
    {Rejected, EmptyContent, ProseReply, MalformedReply, GoodReply, ClashReply,
     EmptyObjectReply}

\* what the service may answer to its k-th call of the request
OutcomesAt(mode, k) ==
    CASE mode = "ok" -> {GoodReply}
      [] mode = "clash" -> {ClashReply}
      [] mode = "every3rd" ->
            IF k % 3 # 0 THEN {GoodReply}
            ELSE IF (k \div 3) % 3 = 1 THEN {Rejected}
            ELSE IF (k \div 3) % 3 = 2 THEN {ProseReply}
            ELSE {MalformedReply}
      [] OTHER -> Outcomes

\* the reply texts of the extraction specification
Alphabet == {LBrace, RBrace, Comma, "Sure:", "\"industry\":\"Tech\"", "\"meta\":"}
Texts == UNION {[1..n -> Alphabet] : n \in 0..MaxText}
NoMessage == [kind |-> "none", content |-> <<>>]
NoResult == [ok |-> FALSE, error |-> "pending", value |-> <<>>]

(***************************************************************************)
(* State.                                                                  *)
(***************************************************************************)
VARIABLES
    file,        \* req.file: the upload
    service,     \* how the AI service behaves during this request
    pc,          \* where the handler is: start, parsing, awaiting, responded
    parsed,      \* rows the parser has emitted
    companies,   \* companies
    results,     \* results
    calls,       \* the names the service was called with, in order
    inflight,    \* service calls issued and not yet settled
    now,         \* the clock
    response,    \* what res was answered with
    replies,     \* history: the outcome of each settled call and its time
    parseFailed, \* history: the parser emitted 'error'
    jmsg,        \* extraction specification: the outcome given to enrichCompany
    jout         \* extraction specification: what enrichCompany did

vars ==
    <<file, service, pc, parsed, companies, results, calls, inflight, now,
      response, replies, parseFailed, jmsg, jout>>

Fresh ==
    /\ pc = "start"
    /\ parsed = 0
    /\ companies = <<>>
    /\ results = <<>>
    /\ calls = <<>>
    /\ inflight = 0
    /\ now = 0
    /\ response = NoResponse
    /\ replies = <<>>
    /\ parseFailed = FALSE

\* uploads of every header and row shape, with a service that always answers
InitShapes ==
    /\ \E h \in Headers : \E n \in 0..MaxShort : \E rows \in [1..n -> CellRows(h)] :
          file = Upload(h.cols, rows)
    /\ service \in {"ok", "clash"}

\* short uploads with a service that answers anything
InitCalls ==
    /\ \E h \in {PlainHeader, ClashHeader} : \E n \in 1..MaxCalls :
          file = Upload(h.cols, [j \in 1..n |-> h.sample])
    /\ service = "any"

\* long uploads, up to and past the cap
InitLong ==
    /\ \E n \in 0..MaxRows : \E u \in 0..MaxBlank :
          /\ u <= n
          /\ file = Upload(LongHeader, LongRows(n, u))
    /\ service \in {"ok", "every3rd"}

\* a request without a file
InitNoFile ==
    /\ file = NoUpload
    /\ service = "ok"

Init ==
    /\ Fresh
    /\ InitShapes \/ InitCalls \/ InitLong \/ InitNoFile
    /\ jmsg = NoMessage
    /\ jout = NoResult

(***************************************************************************)
(* The handler of POST /api/enrich, one action per stretch between awaits. *)
(***************************************************************************)
\* the loop from the moment rs are the rows pushed: the next call is issued,
\* or the loop is over and the response is sent
Continue(rs, settled) ==
    LET batch == Batch(companies')
    IN  /\ results' = rs
        /\ IF Len(rs) < Len(batch)
           THEN /\ calls' = Append(calls, NextCompany(batch, Len(rs)).name)
                /\ inflight' = inflight - settled + 1
                /\ pc' = "awaiting"
                /\ response' = response
           ELSE /\ calls' = calls
                /\ inflight' = inflight - settled
                /\ pc' = "responded"
                /\ response' = Summary(rs)

\* the handler starts: req.file is read and the parser is set up
Begin ==
    /\ pc = "start"
    /\ IF file.present
       THEN /\ pc' = "parsing"
            /\ response' = response
       ELSE /\ pc' = "responded"
            /\ response' = Failure(results)
    /\ UNCHANGED <<file, service, parsed, companies, results, calls, inflight,
                   now, replies, parseFailed, jmsg, jout>>

\* the parser emits 'data'
OnData ==
    /\ pc = "parsing"
    /\ parsed < Len(file.rows)
    /\ parsed' = parsed + 1
    /\ companies' =
          OnRow(companies,
                RowOf(file.header, file.rows[parsed + 1], Len(file.header)))
    /\ UNCHANGED <<file, service, pc, results, calls, inflight, now, response,
                   replies, parseFailed, jmsg, jout>>

\* the parser emits 'error': the promise rejects and the outer catch answers
OnError ==
    /\ pc = "parsing"
    /\ parseFailed' = TRUE
    /\ pc' = "responded"
    /\ response' = Failure(results)
    /\ UNCHANGED <<file, service, parsed, companies, results, calls, inflight,
                   now, replies, jmsg, jout>>

\* the parser emits 'end': the promise resolves and the loop starts
OnEnd ==
    /\ pc = "parsing"
    /\ parsed = Len(file.rows)
    /\ companies' = companies
    /\ Continue(results, 0)
    /\ UNCHANGED <<file, service, parsed, now, replies, parseFailed, jmsg, jout>>

\* the outstanding call settles (the service answers or rejects), the row is
\* pushed and the loop goes on
OnSettled ==
    /\ pc = "awaiting"
    /\ \E outcome \in OutcomesAt(service, Len(calls)) :
          /\ now' = now + 1
          /\ replies' = Append(replies, [outcome |-> outcome, at |-> now'])
          /\ companies' = companies
          /\ Continue(Append(results,
                             LoopBody(NextCompany(Batch(companies), Len(results)),
                                      outcome, now')), 1)
    /\ UNCHANGED <<file, service, parsed, parseFailed, jmsg, jout>>

Next == Begin \/ OnData \/ OnError \/ OnEnd \/ OnSettled

Spec == Init /\ [][Next]_vars

(***************************************************************************)
(* enrichCompany alone, on every reply text of up to MaxText tokens, as    *)
(* the only block of the message or followed by a second block.            *)
(***************************************************************************)
InitJson ==
    /\ Fresh
    /\ file = NoUpload
    /\ service = "ok"
    /\ \E t \in Texts :
          \/ jmsg = Message(<<TextBlock(t)>>)
          \/ jmsg = Message(<<TextBlock(t), TextBlock(<<LBrace, RBrace>>)>>)
    /\ jout = NoResult

Extract ==
    /\ jout = NoResult
    /\ jout' = enrichCompany(jmsg)
    /\ UNCHANGED <<file, service, pc, parsed, companies, results, calls,
                   inflight, now, response, replies, parseFailed, jmsg>>

NextJson == Extract

SpecJson == InitJson /\ [][NextJson]_vars

(***************************************************************************)
(* What the claims are stated with.                                        *)
(***************************************************************************)
Min(a, b) == IF a < b THEN a ELSE b

\* the upload's rows as objects, and those with a resolvable company name
AllRows ==
    [j \in 1..Len(file.rows) |->
        RowOf(file.header, file.rows[j], Len(file.header))]
IsResolvable(row) == Truthy(companyName(row))
ResolvableRows == SelectSeq(AllRows, IsResolvable)

Responded200 == pc = "responded" /\ response.status = 200
Body == response.body
\* the rows of `data`, as objects
Data == [k \in 1..Len(Get(Body, "data").a) |-> Get(Body, "data").a[k].o]

\* the keys a reply object of the model can hold
ReplyKeys ==
    {"industry", "company", "error", "enrichment_cost", "enriched_at", "meta"}

\* row is made from the uploaded row orig: every column is there, with its
\* value unless it is one a reply or the handler may set
MadeFrom(row, orig) ==
    \A c \in Keys(orig) :
        /\ Has(row, c)
        /\ c \notin ReplyKeys => Get(row, c) = Get(orig, c)

\* the outcomes on which enrichCompany fails: the call rejects, there is no
\* text, no JSON in the text, or malformed JSON
FailingOutcomes == {Rejected, EmptyContent, ProseReply, MalformedReply}
Failed(k) == replies[k].outcome \in FailingOutcomes

(***************************************************************************)
(* C1: the data array of a 200 response has exactly min(n, 50) rows, n the *)
(* number of uploaded rows with a resolvable company name; row k is made   *)
(* from the k-th such row, so the rows past the 50th never appear; and the *)
(* response has no field but success, the four figures and data, the count *)
(* it reports being that of the rows it returns.                           *)
(***************************************************************************)
C1_CappedRowCount ==
    Responded200 =>
        LET rr == ResolvableRows
        IN  /\ Len(Data) = Min(Len(rr), 50)
            /\ \A k \in 1..Len(Data) : MadeFrom(Data[k], rr[k])
            /\ Keys(Body) = {"success", "total_processed", "estimated_cost",
                             "retail_value", "margin", "data"}
            /\ Get(Body, "total_processed") = Num(FromInt(Len(Data)))

\* a 200 response to an upload of more than 50 resolvable rows
C1_Witness ==
    /\ Responded200
    /\ Len(ResolvableRows) > 50
    /\ Len(Data) = 50

(***************************************************************************)
(* C2: in every 200 response total_processed is the number of rows of data *)
(* (one per settled call, failed or not), estimated_cost is that number    *)
(* times 0.15, retail_value that number times 10 and margin the difference *)
(* of the two, in the doubles the response is made of; with no company the *)
(* response is success true, four zeros and no row.                        *)
(***************************************************************************)
C2_SummaryFigures ==
    Responded200 =>
        LET n == Len(Data)
            cost == Get(Body, "estimated_cost")
            retail == Get(Body, "retail_value")
        IN  /\ n = Len(replies)
            /\ Get(Body, "success") = Bool(TRUE)
            /\ Get(Body, "total_processed") = Num(FromInt(n))
            /\ cost = Num(TimesInt(n, Double015))
            /\ retail = Num(FromInt(n * 10))
            /\ Get(Body, "margin") = Num(Minus(retail.d, cost.d))
            /\ ResolvableRows = <<>> =>
                  /\ n = 0
                  /\ Get(Body, "total_processed") = Num(FromInt(0))
                  /\ cost = Num(FromInt(0))
                  /\ retail = Num(FromInt(0))
                  /\ Get(Body, "margin") = Num(FromInt(0))

\* a 200 response of three rows, one of a failed enrichment and one of a
\* successful one
C2_Witness ==
    /\ Responded200
    /\ Len(Data) = 3
    /\ \E k \in 1..3 : Failed(k)
    /\ \E k \in 1..3 : ~Failed(k)

(***************************************************************************)
(* C3: a failed enrichment does not abort the batch: every settled call    *)
(* has pushed one row; the row of a failed one is the uploaded row with    *)
(* error set to "Enrichment failed" and nothing else added; and a request  *)
(* whose upload parsed answers 200 with one row per company of the batch.  *)
(***************************************************************************)
C3_FailureKeepsBatch ==
    LET rr == ResolvableRows
    IN  /\ Len(results) = Len(replies)
        /\ \A k \in 1..Len(replies) :
              Failed(k) =>
                  /\ Keys(results[k]) = Keys(rr[k]) \cup {"error"}
                  /\ Get(results[k], "error") = Str("Enrichment failed")
                  /\ \A c \in Keys(rr[k]) \ {"error"} :
                        Get(results[k], c) = Get(rr[k], c)
        /\ (pc = "responded" /\ file.present /\ ~parseFailed) =>
              /\ response.status = 200
              /\ Len(Data) = Min(Len(rr), 50)
              /\ \A k \in 1..Len(Data) : Data[k] = results[k]

\* five companies of which only the third failed: five rows, four enriched
\* and one with only error added
C3_Witness ==
    /\ Responded200
    /\ Len(Data) = 5
    /\ \A k \in 1..5 : Failed(k) <=> k = 3
    /\ \A k \in 1..5 : Has(Data[k], "industry") <=> k # 3
    /\ \A k \in 1..5 : Has(Data[k], "error") <=> k = 3

(***************************************************************************)
(* C4: the calls issued are the names of the first min(n, 50) resolvable   *)
(* rows, in upload order, once each: at most one call is outstanding, a    *)
(* call is issued only when all earlier ones have settled and only after   *)
(* the whole upload was parsed, and the rows of data are in that order.    *)
(***************************************************************************)
C4_SequentialCalls ==
    LET rr == ResolvableRows
    IN  /\ inflight \in {0, 1}
        /\ inflight = 1 <=> pc = "awaiting"
        /\ Len(calls) = Len(replies) + inflight
        /\ Len(calls) <= Min(Len(rr), 50)
        /\ \A k \in 1..Len(calls) : calls[k] = companyName(rr[k])
        /\ calls # <<>> => parsed = Len(file.rows)
        /\ Responded200 =>
              /\ Len(calls) = Min(Len(rr), 50)
              /\ Len(Data) = Len(calls)
              /\ \A k \in 1..Len(Data) : MadeFrom(Data[k], rr[k])

\* a 200 response after 50 calls for an upload of more than 50 companies
C4_Witness ==
    /\ Responded200
    /\ Len(calls) = 50
    /\ Len(ResolvableRows) > 50
    /\ calls[1] # calls[50]

(***************************************************************************)
(* C5 as claimed: the company name of a row is the value under the first   *)
(* of the aliases company, Company, business_name, Company Name that has a *)
(* value in the row, and the value of the row's first column when none     *)
(* has; a row that gives no value this way is dropped, and the others are  *)
(* the companies, in upload order.                                         *)
(***************************************************************************)
Aliases == <<"company", "Company", "business_name", "Company Name">>

\* the cell under column c, "" when the header has no such column
CellUnder(header, cells, c) ==
    IF \E j \in 1..Len(header) : header[j] = c
    THEN cells[CHOOSE j \in 1..Len(header) : header[j] = c]
    ELSE ""

\* the value under the first alias that has one, "" when none has
AliasValue(header, cells) ==
    IF \E a \in 1..Len(Aliases) : CellUnder(header, cells, Aliases[a]) # ""
    THEN CellUnder(header, cells,
                   Aliases[CHOOSE a \in 1..Len(Aliases) :
                              /\ CellUnder(header, cells, Aliases[a]) # ""
                              /\ \A b \in 1..(a - 1) :
                                    CellUnder(header, cells, Aliases[b]) = ""])
    ELSE ""

\* the value of the first column
FirstColumn(header, cells) == IF Len(cells) = 0 THEN "" ELSE cells[1]

\* the value that comes first in the row object: the one under the least
\* integer-like column name when the header has such names, and that of the
\* first column otherwise
FirstProperty(header, cells) ==
    LET idx == {j \in 1..Len(header) : IsIndex(header[j])}
    IN  IF idx = {} THEN FirstColumn(header, cells)
        ELSE cells[CHOOSE j \in idx :
                      \A i \in idx : IndexValue[header[j]] <= IndexValue[header[i]]]

ClaimedName(header, cells) ==
    IF AliasValue(header, cells) # "" THEN AliasValue(header, cells)
    ELSE FirstColumn(header, cells)

AmendedName(header, cells) ==
    IF AliasValue(header, cells) # "" THEN AliasValue(header, cells)
    ELSE FirstProperty(header, cells)

\* the companies of the first n rows, named as claimed or as amended
RECURSIVE CompaniesBy(_, _)
CompaniesBy(amended, n) ==
    IF n = 0 THEN <<>>
    ELSE LET name == IF amended THEN AmendedName(file.header, file.rows[n])
                     ELSE ClaimedName(file.header, file.rows[n])
             row == RowOf(file.header, file.rows[n], Len(file.header))
         IN  IF name = "" THEN CompaniesBy(amended, n - 1)
             ELSE Append(CompaniesBy(amended, n - 1),
                         [name |-> Str(name), originalRow |-> row])

C5_NameByAliasThenFirstColumn ==
    file.present => companies = CompaniesBy(FALSE, parsed)

(***************************************************************************)
(* C5, amended: the company name of a row is the value under the first of  *)
(* the aliases that has a value in the row and, when none has, the first   *)
(* value of the parsed row object, which is the value under the least      *)
(* integer-like column name when the header has such a name and the value  *)
(* of the first column otherwise; a row that gives no value this way is    *)
(* dropped, and the others are the companies, in upload order.             *)
(***************************************************************************)
C5_NameByAliasThenFirstProperty ==
    file.present => companies = CompaniesBy(TRUE, parsed)

\* rows were parsed under a header with integer-like names: the one whose
\* cell under the least of them is empty was dropped, the other is named by
\* that cell and not by its first column
C5_Witness ==
    /\ parsed = 2
    /\ file.header = <<"name", "2024", "2023">>
    /\ file.rows = << <<"Acme", "5", "">>, <<"Acme", "5", "4">> >>
    /\ Len(companies) = 1
    /\ companies[1].name = Str("4")

(***************************************************************************)
(* C6: a parse failure answers 500 with { error: "Processing failed" } and *)
(* nothing else, whatever rows were parsed before it, and no call to the   *)
(* service is issued for the request; a call is issued only once the whole *)
(* upload has been parsed.                                                 *)
(***************************************************************************)
C6_ParseAllOrNothing ==
    /\ parseFailed =>
          /\ pc = "responded"
          /\ response.status = 500
          /\ Body = << <<"error", Str("Processing failed")>> >>
          /\ calls = <<>>
          /\ replies = <<>>
    /\ calls # <<>> => (parsed = Len(file.rows) /\ ~parseFailed)

\* a parse failure after rows with a company name were parsed
C6_Witness ==
    /\ parseFailed
    /\ parsed >= 1
    /\ companies # <<>>
    /\ response.status = 500

(***************************************************************************)
(* C7 as claimed: whenever the reply text holds a valid JSON object, with  *)
(* any text before and after it, enrichCompany returns that object.        *)
(***************************************************************************)
ReplyText == jmsg.content[1].text
Extracted == jout # NoResult

C7_AnyEmbeddedObject ==
    Extracted =>
        \A f \in 1..Len(ReplyText) : \A l \in f..Len(ReplyText) :
            JSONParse(SubSeq(ReplyText, f, l)).ok =>
                jout = Returned(JSONParse(SubSeq(ReplyText, f, l)).value)

(***************************************************************************)
(* C7, amended: whenever the reply text holds a valid JSON object with no  *)
(* "{" in the text before it and no "}" in the text after it, enrichCompany *)
(* returns that object.                                                    *)
(***************************************************************************)
C7_EmbeddedObjectNoStrayBraces ==
    Extracted =>
        \A f \in 1..Len(ReplyText) : \A l \in f..Len(ReplyText) :
            ( /\ JSONParse(SubSeq(ReplyText, f, l)).ok
              /\ \A i \in 1..(f - 1) : ReplyText[i] # LBrace
              /\ \A i \in (l + 1)..Len(ReplyText) : ReplyText[i] # RBrace )
            => jout = Returned(JSONParse(SubSeq(ReplyText, f, l)).value)

\* an object with text before it and text after it
C7_Witness ==
    /\ Extracted
    /\ ReplyText = <<"Sure:", LBrace, "\"industry\":\"Tech\"", RBrace, "Sure:">>
    /\ jout = Returned(<< <<"industry", Str("Tech")>> >>)

(***************************************************************************)
(* C8 as claimed: every row of data of a 200 response has enrichment_cost  *)
(* and enriched_at.                                                        *)
(***************************************************************************)
C8_EveryRowCosted ==
    Responded200 =>
        \A k \in 1..Len(Data) :
            Has(Data[k], "enrichment_cost") /\ Has(Data[k], "enriched_at")

(***************************************************************************)
(* C8, amended: in a 200 response every row of a successful enrichment has *)
(* enrichment_cost and enriched_at; the row of a failed one has error, and *)
(* has enrichment_cost or enriched_at only as the column of that name of   *)
(* the uploaded row, with its uploaded value.                              *)
(***************************************************************************)
C8_EnrichedRowsCosted ==
    Responded200 =>
        LET rr == ResolvableRows
        IN  \A k \in 1..Len(Data) :
                IF Failed(k)
                THEN /\ Has(Data[k], "error")
                     /\ \A c \in {"enrichment_cost", "enriched_at"} :
                           /\ Has(Data[k], c) <=> Has(rr[k], c)
                           /\ Get(Data[k], c) = Get(rr[k], c)
                ELSE /\ Has(Data[k], "enrichment_cost")
                     /\ Has(Data[k], "enriched_at")

\* a 200 response with an enriched row and a failed row that has neither
\* enrichment_cost nor enriched_at
C8_Witness ==
    /\ Responded200
    /\ \E k \in 1..Len(Data) : ~Failed(k) /\ Has(Data[k], "enriched_at")
    /\ \E k \in 1..Len(Data) :
          /\ Failed(k)
          /\ ~Has(Data[k], "enrichment_cost")
          /\ ~Has(Data[k], "enriched_at")

(***************************************************************************)
(* C9: enrichCompany takes the text of the first block from its first "{"  *)
(* to its last "}": it fails with NoJsonFound exactly when no "{" has a    *)
(* "}" after it, with MalformedJson exactly when that stretch is no JSON,  *)
(* and otherwise returns the object parsed from it, whatever its keys.     *)
(***************************************************************************)
HasBracePair ==
    \E i \in 1..Len(ReplyText) : \E j \in (i + 1)..Len(ReplyText) :
        ReplyText[i] = LBrace /\ ReplyText[j] = RBrace
FirstOpen ==
    CHOOSE i \in 1..Len(ReplyText) :
        ReplyText[i] = LBrace /\ \A h \in 1..(i - 1) : ReplyText[h] # LBrace
FinalClose ==
    CHOOSE j \in 1..Len(ReplyText) :
        ReplyText[j] = RBrace /\ \A h \in (j + 1)..Len(ReplyText) : ReplyText[h] # RBrace
Stretch == SubSeq(ReplyText, FirstOpen, FinalClose)

C9_GreedyExtraction ==
    Extracted =>
        /\ jout.error = "NoJsonFound" <=> ~HasBracePair
        /\ jout.error = "MalformedJson" <=> (HasBracePair /\ ~JSONParse(Stretch).ok)
        /\ (HasBracePair /\ JSONParse(Stretch).ok) =>
              jout = Returned(JSONParse(Stretch).value)

\* an object with none of the fields asked for is returned, from the first
\* block of two
C9_Witness ==
    /\ Extracted
    /\ Len(jmsg.content) = 2
    /\ ReplyText = <<LBrace, "\"meta\":", LBrace, RBrace, RBrace>>
    /\ jout.ok
    /\ Keys(jout.value) = {"meta"}

(***************************************************************************)
(* C10: a row of a successful enrichment has the keys of the uploaded row, *)
(* those of the reply object, enrichment_cost and enriched_at;             *)
(* enrichment_cost is 0.15 and enriched_at the time of the merge, whatever *)
(* the reply or the uploaded row hold under these names; any other key has *)
(* the reply's value when the reply has the key and the uploaded row's     *)
(* value otherwise.                                                        *)
(***************************************************************************)
ReplyObject(k) == JSONParse(Match(replies[k].outcome.content[1].text).text).value

C10_MergePrecedence ==
    Responded200 =>
        LET rr == ResolvableRows
        IN  \A k \in 1..Len(Data) :
                ~Failed(k) =>
                    /\ Keys(Data[k]) = Keys(rr[k]) \cup Keys(ReplyObject(k))
                                       \cup {"enrichment_cost", "enriched_at"}
                    /\ \A c \in Keys(Data[k]) :
                          Get(Data[k], c) =
                              IF c = "enrichment_cost" THEN Num(Double015)
                              ELSE IF c = "enriched_at"
                              THEN Str(toISOString(replies[k].at))
                              ELSE IF Has(ReplyObject(k), c)
                              THEN Get(ReplyObject(k), c)
                              ELSE Get(rr[k], c)

\* the uploaded row and the reply both have company, error, enrichment_cost
\* and enriched_at: the reply wins company and error, the handler the rest,
\* and the uploaded industry survives
C10_Witness ==
    /\ Responded200
    /\ \E k \in 1..Len(Data) :
          /\ ~Failed(k)
          /\ Get(ResolvableRows[k], "company") = Str("Acme")
          /\ Get(ResolvableRows[k], "enrichment_cost") = Str("9")
          /\ Get(ReplyObject(k), "enrichment_cost") = Str("free")
          /\ Get(Data[k], "company") = Str("Acme Corp")
          /\ Get(Data[k], "error") = Str("none")
          /\ Get(Data[k], "industry") = Str("Retail")
          /\ Get(Data[k], "enrichment_cost") = Num(Double015)
====
